---- MODULE Spec2Model ----
(***************************************************************************)
(* Lexical-Analyzer-Generator: the NFA compiler (src/src/nfa.py) and the   *)
(* closure / move engine of the finite-automaton base class                *)
(* (src/src/fa.py).                                                        *)
(*                                                                         *)
(* A character is a one-character string; U03B5 stands for the single      *)
(* character U+03B5 (FA.epsilon).  A Python str is a sequence of           *)
(* characters.  None is 0 where a state id is expected.                    *)
(*                                                                         *)
(* CHOOSE r \in {F(x) : x \in {e}} : TRUE is F(e) with e evaluated once;     *)
(* it is how a local variable of the code that is read many times is       *)
(* bound to its value.                                                     *)
(***************************************************************************)
EXTENDS Integers, Sequences, FiniteSets, TLC

VARIABLES
    cni,      \* NFA.__cni, the class-wide state id counter
    memo,     \* the dict of FA.__memoize_epsilon, shared by every automaton
    slots,    \* the caller's NFA objects: [start, end, cell]
    cells,    \* the MultiDiGraph objects the NFA objects refer to
    ret,      \* what the last call was given and what it returned
    inp,      \* the input of a compilation
    pc,       \* position of the compile-and-scan driver
    states    \* FA.states, the list of registered composite states

vars == <<cni, memo, slots, cells, ret, inp, pc, states>>

----------------------------------------------------------------------------
(* Bounds *)

MaxId == 6          \* the fragment algebra allocates no state id above this
MaxQueryId == 4     \* the same, where closure and move are queried as well
MaxSrc == 2         \* largest set of source states handed to a query
MaxWord == 4        \* longest word scanned
MaxLen == 3         \* longest word two languages are compared on
MaxStartCni == 2    \* largest counter value a compilation starts from
MaxRangeId == 8     \* no range is built that allocates a state id above this
MaxIndex == 2       \* largest index a composite state carries
MaxNfaId == 2       \* largest NFA state id in a composite state
MaxStates == 2      \* longest list of registered composite states

Slots == {1, 2}
None == 0

----------------------------------------------------------------------------
(* Characters and str values *)

QUOTE == "'"
EpsChar == "U03B5"
Chars == {"0", "1", EpsChar}

Ord(c) ==
    CASE c = "0" -> 48
      [] c = "1" -> 49
      [] c = "2" -> 50
      [] c = "-" -> 45
      [] c = "L" -> 76
      [] c = EpsChar -> 949
      [] OTHER -> 63

OrdChars == {"0", "1", "2", "-", "L", EpsChar}

Chr(n) == IF \E c \in OrdChars : Ord(c) = n
          THEN CHOOSE c \in OrdChars : Ord(c) = n
          ELSE "?"

\* repr of a str: its characters between quotes
Repr(s) == <<QUOTE>> \o s \o <<QUOTE>>

\* an edge's 'weight' attribute: a str (t = "str", s) or an int (t = "int", n)
StrW(s) == [t |-> "str", s |-> s, n |-> 0]
IntW(n) == [t |-> "int", s |-> <<>>, n |-> n]

\* FA.epsilon
Epsilon == StrW(<<EpsChar>>)

----------------------------------------------------------------------------
(* networkx.MultiDiGraph: nodes, keyed parallel edges, node attributes *)

EmptyGraph == [nodes |-> {}, edges |-> {}, acc |-> {}]

\* add_weighted_edges_from with one edge: the key of a new edge is the number
\* of edges already between u and v
AddEdge(g, u, v, w) ==
    LET k == Cardinality({e \in g.edges : e.u = u /\ e.v = v})
    IN  [nodes |-> g.nodes \cup {u, v},
         edges |-> g.edges \cup {[u |-> u, v |-> v, k |-> k, w |-> w]},
         acc   |-> g.acc]

ComposeLeftAttributes(G, H) ==
    [nodes |-> G.nodes \cup H.nodes,
     edges |-> H.edges \cup
               {e \in G.edges :
                  ~ \E h \in H.edges : h.u = e.u /\ h.v = e.v /\ h.k = e.k},
     acc   |-> G.acc \cup {p \in H.acc : p[1] \notin G.nodes}]

\* nx.compose(G, H): nodes and keyed edges of both; an edge or a node's
\* attribute dict that both hold is taken from H
Compose(G, H) ==
    [nodes |-> G.nodes \cup H.nodes,
     edges |-> H.edges \cup
               {e \in G.edges :
                  ~ \E h \in H.edges : h.u = e.u /\ h.v = e.v /\ h.k = e.k},
     acc   |-> H.acc \cup {p \in G.acc : p[1] \notin H.nodes}]

\* graph.node[n]['acceptance'] = name
SetAcceptance(g, n, name) ==
    [g EXCEPT !.acc = {p \in g.acc : p[1] # n} \cup {<<n, name>>}]

\* NFA(): no start, no end, a new empty graph
NewNFA == [start |-> None, end |-> None, graph |-> EmptyGraph]

----------------------------------------------------------------------------
(* State ids *)

GetNodeIndexStuck(c) == [id |-> c, cni |-> c]

\* NFA.get_node_index: returns the counter and increments it
GetNodeIndex(c) == [id |-> c, cni |-> c + 1]

----------------------------------------------------------------------------
(* Fragment algebra.  An operator that mutates self.graph in place and then
   rebinds self.graph reports both: inplace is the graph object self.graph
   referred to on entry, as the call leaves it; self.graph is the graph the
   object refers to on return. *)

\* NFA.concatenate_node
ConcatenateNode(self, edge_weight, c) ==
    IF self.start = None /\ self.end = None
    THEN LET s == GetNodeIndex(c)
             e == GetNodeIndex(s.cni)
         IN  [self |-> [start |-> s.id, end |-> e.id,
                        graph |-> AddEdge(self.graph, s.id, e.id,
                                          StrW(Repr(edge_weight)))],
              cni |-> e.cni]
    ELSE [self |-> self, cni |-> c]

RECURSIVE RangeLoopExclusive(_, _, _, _, _, _)

\* one pass of the for loop of NFA.add_nodes_in_range
RangeBranch(g, start, end, char_ord, c) ==
    LET gate  == GetNodeIndex(c)
        g1    == AddEdge(g, start, gate.id, Epsilon)
        inner == GetNodeIndex(gate.cni)
        g2    == AddEdge(g1, gate.cni - 1, inner.id, IntW(char_ord))
        g3    == AddEdge(g2, inner.cni - 1, end, Epsilon)
    IN  [graph |-> g3, cni |-> inner.cni]

RangeLoopExclusive(g, start, end, char_ord, last, c) ==
    IF char_ord >= last THEN [graph |-> g, cni |-> c]
    ELSE CHOOSE r \in {RangeLoopExclusive(b.graph, start, end, char_ord + 1,
                                          last, b.cni) :
                          b \in {RangeBranch(g, start, end, char_ord, c)}} : TRUE

\* the for loop of NFA.add_nodes_in_range, from char_ord to last
RECURSIVE RangeLoop(_, _, _, _, _, _)
RangeLoop(g, start, end, char_ord, last, c) ==
    IF char_ord > last THEN [graph |-> g, cni |-> c]
    ELSE CHOOSE r \in {RangeLoop(b.graph, start, end, char_ord + 1, last, b.cni) :
                          b \in {RangeBranch(g, start, end, char_ord, c)}} : TRUE

\* NFA.add_nodes_in_range
AddNodesInRange(self, start_char, end_char, c) ==
    LET s == GetNodeIndex(c)
        e == GetNodeIndex(s.cni)
        r == RangeLoop(self.graph, s.id, e.id, Ord(start_char), Ord(end_char), e.cni)
    IN  [self |-> [start |-> s.id, end |-> e.id, graph |-> r.graph],
         cni |-> r.cni]

\* NFA.from_character_or_range; err is the exception raised, "" for none
FromCharacterOrRange(self, regex, c) ==
    LET isRange == Len(regex) = 3 /\ (\E i \in 1..3 : regex[i] = "-")
        built == IF isRange
                 THEN AddNodesInRange(self, regex[1], regex[3], c)
                 ELSE ConcatenateNode(self, regex, c)
        fixed == IF built.self.end = None
                 THEN [built.self EXCEPT !.end = built.cni - 1]
                 ELSE built.self
    IN  IF isRange /\ ~ (Ord(regex[1]) < Ord(regex[3]))
        THEN [self |-> self, cni |-> c, err |-> "ValueError"]
        ELSE [self |-> fixed, cni |-> built.cni, err |-> ""]

\* NFA.from_simple_regex on one character or one range a-b: the pattern
\* (.-.|.)+? has exactly one match on it
FromSimpleRegex(regex, c) == FromCharacterOrRange(NewNFA, regex, c)

\* NFA.empty
Empty(c) ==
    LET s == GetNodeIndex(c)
        e == GetNodeIndex(s.cni)
    IN  [self |-> [start |-> s.id, end |-> e.id,
                   graph |-> AddEdge(EmptyGraph, s.id, e.id, Epsilon)],
         cni |-> e.cni, err |-> ""]

\* NFA.concatenate; alias: self.graph is now the very object nfa.graph is
Concatenate(self, nfa) ==
    IF self.start # None /\ self.end # None
    THEN LET g1 == AddEdge(self.graph, self.end, nfa.start, Epsilon)
         IN  [self |-> [start |-> self.start, end |-> nfa.end,
                        graph |-> Compose(g1, nfa.graph)],
              inplace |-> g1, alias |-> FALSE]
    ELSE [self |-> [self EXCEPT !.graph = nfa.graph],
          inplace |-> self.graph, alias |-> TRUE]

UnionOneNode(self, nfa, c) ==
    LET s  == GetNodeIndex(c)
        g1 == AddEdge(self.graph, s.id, self.start, Epsilon)
        g2 == AddEdge(g1, s.id, nfa.start, Epsilon)
        g3 == AddEdge(g2, self.end, s.id, Epsilon)
        g4 == AddEdge(g3, nfa.end, s.id, Epsilon)
    IN  [self |-> [start |-> s.id, end |-> s.id,
                   graph |-> Compose(g4, nfa.graph)],
         inplace |-> g4, cni |-> s.cni]

\* NFA.union
Union(self, nfa, c) ==
    LET last_start_node == self.start
        last_end_node   == self.end
        s  == GetNodeIndex(c)
        e  == GetNodeIndex(s.cni)
        g1 == AddEdge(self.graph, s.id, last_start_node, Epsilon)
        g2 == AddEdge(g1, s.id, nfa.start, Epsilon)
        g3 == AddEdge(g2, last_end_node, e.id, Epsilon)
        g4 == AddEdge(g3, nfa.end, e.id, Epsilon)
    IN  [self |-> [start |-> s.id, end |-> e.id,
                   graph |-> Compose(g4, nfa.graph)],
         inplace |-> g4, cni |-> e.cni]

KleeneClosureNoBypass(self, c) ==
    LET g0 == AddEdge(self.graph, self.end, self.start, Epsilon)
        s  == GetNodeIndex(c)
        e  == GetNodeIndex(s.cni)
        g1 == AddEdge(g0, s.id, self.start, Epsilon)
        g2 == AddEdge(g1, self.end, e.id, Epsilon)
    IN  [self |-> [start |-> s.id, end |-> e.id, graph |-> g2],
         cni |-> e.cni]

\* NFA.kleene_closure (mutates self.graph in place)
KleeneClosure(self, c) ==
    LET last_start_node == self.start
        last_end_node   == self.end
        g0 == AddEdge(self.graph, last_end_node, last_start_node, Epsilon)
        s  == GetNodeIndex(c)
        e  == GetNodeIndex(s.cni)
        g1 == AddEdge(g0, s.id, last_start_node, Epsilon)
        g2 == AddEdge(g1, last_end_node, e.id, Epsilon)
        g3 == AddEdge(g2, s.id, e.id, Epsilon)
    IN  [self |-> [start |-> s.id, end |-> e.id, graph |-> g3],
         cni |-> e.cni]

\* NFA.plus (mutates self.graph in place)
Plus(self) ==
    [self EXCEPT !.graph = AddEdge(self.graph, self.end, self.start, Epsilon)]

----------------------------------------------------------------------------
(* Epsilon closure and move (FA) *)

\* the body of FA.__epsilon_closure: node, and each neighbor whose first
\* (key 0) edge from node carries FA.epsilon
EpsilonClosure(g, node) ==
    {node} \cup {e.v : e \in {x \in g.edges :
                                x.u = node /\ x.k = 0 /\ x.w = Epsilon}}

\* helper of FA.__memoize_epsilon: what the call returns under memo m
MemoizeEpsilon(m, g, x) ==
    IF x \in DOMAIN m THEN m[x] ELSE EpsilonClosure(g, x)

\* the memo after helper has been called on every node of nodes
MemoAfter(m, g, nodes) ==
    [x \in (DOMAIN m) \cup nodes |-> MemoizeEpsilon(m, g, x)]

\* lines 104-109: the epsilon_closures set one call collects under memo m2
Collected(m2, nodes) == (UNION {m2[n] : n \in nodes}) \ nodes

GetEpsilonClosuresOnePass(g, m, nodes, depth) ==
    CHOOSE r \in {[nodes |-> nodes \cup Collected(m2, nodes),
                   memo |-> m2, depth |-> depth] :
                     m2 \in {MemoAfter(m, g, nodes)}} : TRUE

RECURSIVE GetEpsilonClosuresExtraCall(_, _, _, _)
GetEpsilonClosuresExtraCall(g, m, nodes, depth) ==
    CHOOSE r \in
        {IF epsilon_closures = {}
         THEN [nodes |-> ns, memo |-> m2, depth |-> depth + 1]
         ELSE GetEpsilonClosuresExtraCall(g, m2, ns \cup epsilon_closures,
                                          depth + 1) :
            m2 \in {MemoAfter(m, g, nodes)}, ns \in {nodes},
            epsilon_closures \in {Collected(MemoAfter(m, g, nodes), nodes)}} : TRUE

\* FA.get_epsilon_closures on a set of nodes; depth counts the nested calls
RECURSIVE GetEpsilonClosures(_, _, _, _)
GetEpsilonClosures(g, m, nodes, depth) ==
    CHOOSE r \in
        {IF epsilon_closures = {}
         THEN [nodes |-> ns, memo |-> m2, depth |-> depth]
         ELSE GetEpsilonClosures(g, m2, ns \cup epsilon_closures, depth + 1) :
            m2 \in {MemoAfter(m, g, nodes)}, ns \in {nodes},
            epsilon_closures \in {Collected(MemoAfter(m, g, nodes), nodes)}} : TRUE

\* eval(weight) of FA.move for a str weight: the quoted str, when it is one
IsQuoted(s) == Len(s) >= 2 /\ s[1] = QUOTE /\ s[Len(s)] = QUOTE
Eval(s) == SubSeq(s, 2, Len(s) - 1)

\* lines 39-44 of FA.move, then str(weight): epsilon is kept as it is, an int
\* raises TypeError and becomes chr(weight), a str that does not evaluate
\* (NameError, SyntaxError) is kept
ResolveWeight(w) ==
    IF w = Epsilon THEN w.s
    ELSE IF w.t = "int" THEN <<Chr(w.n)>>
    ELSE IF IsQuoted(w.s) THEN Eval(w.s)
    ELSE w.s

\* str(weight) == str(input) for a character input
WeightMatches(w, input) == ResolveWeight(w) = <<input>>

\* lines 33-48 of FA.move: the destinations of the matching edges from nodes
Destinations(g, nodes, inputs) ==
    {e.v : e \in {x \in g.edges :
                    x.u \in nodes /\ \E i \in inputs : WeightMatches(x.w, i)}}

MoveClosingResult(g, m, source, inputs) ==
    CHOOSE r \in
        {[destination |-> out.nodes, nodes |-> cl.nodes, memo |-> out.memo] :
            cl \in {GetEpsilonClosures(g, m, source, 0)},
            out \in {GetEpsilonClosures(g,
                        GetEpsilonClosures(g, m, source, 0).memo,
                        Destinations(g, GetEpsilonClosures(g, m, source, 0).nodes,
                                     inputs), 0)}} : TRUE

MoveOnCopy(g, m, source, inputs) ==
    CHOOSE r \in
        {[destination |-> Destinations(g, cl.nodes, inputs),
          nodes |-> source, memo |-> cl.memo] :
            cl \in {GetEpsilonClosures(g, m, source, 0)}} : TRUE

\* FA.move on a set of sources and a set of inputs: destination is returned,
\* nodes is the caller's set after the call
Move(g, m, source, inputs) ==
    CHOOSE r \in
        {[destination |-> Destinations(g, cl.nodes, inputs),
          nodes |-> cl.nodes, memo |-> cl.memo] :
            cl \in {GetEpsilonClosures(g, m, source, 0)}} : TRUE

\* NFA.get_token_name_from_acceptance_node: "" stands for None
GetTokenNameFromAcceptanceNode(g, n) ==
    IF \E p \in g.acc : p[1] = n
    THEN (CHOOSE p \in g.acc : p[1] = n)[2]
    ELSE ""

\* NFA.is_acceptance_node
IsAcceptanceNode(g, n) == \E p \in g.acc : p[1] = n

\* NFA.check_acceptance: every pair the loop can return, whatever order the
\* set is iterated in
CheckAcceptance(g, nodes) ==
    IF \E n \in nodes : IsAcceptanceNode(g, n)
    THEN {<<TRUE, GetTokenNameFromAcceptanceNode(g, n)>> :
             n \in {x \in nodes : IsAcceptanceNode(g, x)}}
    ELSE {<<FALSE, "">>}

----------------------------------------------------------------------------
(* helpers: Stack, the priority table, explicit concatenation *)

\* an entry of the operand stack: an NFA, or None
Some(x) == [none |-> FALSE, nfa |-> x]
NoneV == [none |-> TRUE, nfa |-> NewNFA]

\* Stack.pop and Stack.peek; pop of an empty stack gives None
PopOperand(stk) ==
    IF stk = <<>> THEN [top |-> NoneV, rest |-> <<>>]
    ELSE [top |-> stk[Len(stk)], rest |-> SubSeq(stk, 1, Len(stk) - 1)]

\* None is "" for an operator
PopOperator(stk) ==
    IF stk = <<>> THEN [top |-> "", rest |-> <<>>]
    ELSE [top |-> stk[Len(stk)], rest |-> SubSeq(stk, 1, Len(stk) - 1)]

Peek(stk) == stk[Len(stk)]

\* string_to_priority_hash('(*+&|)'): earlier in the string binds tighter
Priority(ch) ==
    CASE ch = "(" -> 6
      [] ch = "*" -> 5
      [] ch = "+" -> 4
      [] ch = "&" -> 3
      [] ch = "|" -> 2
      [] OTHER -> 1

Operators == {"*", "&", "|", "+"}

\* add_concatenation_operator_to_regex: '&' between two adjacent characters
\* when the first ends an operand and the second starts one
RECURSIVE AddConcatenationOperatorToRegex(_)
AddConcatenationOperatorToRegex(regex) ==
    IF Len(regex) <= 1 THEN regex
    ELSE LET a == regex[1]
             b == regex[2]
             rest == AddConcatenationOperatorToRegex(Tail(regex))
         IN  IF a \notin {"(", "|", "&"} /\ b \notin {")", "|", "&", "*", "+"}
             THEN <<a, "&">> \o rest
             ELSE <<a>> \o rest

----------------------------------------------------------------------------
(* The regex compiler *)

\* NFA.evaluate_operation on the scan state st; a call on None raises
\* AttributeError
EvaluateOperation(operator, st) ==
    IF operator \in {"&", "|"}
    THEN LET p2 == PopOperand(st.operands)
             p1 == PopOperand(p2.rest)
         IN  IF p1.top.none \/ p2.top.none
             THEN [st EXCEPT !.err = "AttributeError"]
             ELSE IF operator = "&"
             THEN [st EXCEPT
                    !.operands = Append(p1.rest,
                        Some(Concatenate(p1.top.nfa, p2.top.nfa).self)),
                    !.evaluated = @ + 1]
             ELSE CHOOSE r \in
                    {[st EXCEPT !.operands = Append(p1.rest, Some(u.self)),
                                !.cni = u.cni,
                                !.evaluated = @ + 1] :
                       u \in {Union(p1.top.nfa, p2.top.nfa, st.cni)}} : TRUE
    ELSE IF operator \in {"*", "+"}
    THEN LET p == PopOperand(st.operands)
         IN  IF p.top.none THEN [st EXCEPT !.err = "AttributeError"]
             ELSE IF operator = "*"
             THEN CHOOSE r \in
                    {[st EXCEPT !.operands = Append(p.rest, Some(k.self)),
                                !.cni = k.cni,
                                !.evaluated = @ + 1] :
                       k \in {KleeneClosure(p.top.nfa, st.cni)}} : TRUE
             ELSE [st EXCEPT !.operands = Append(p.rest, Some(Plus(p.top.nfa))),
                             !.evaluated = @ + 1]
    ELSE st

\* lines 86-91 of NFA.from_regex: operator has been popped; evaluate and pop
\* while it is not None and binds at least as tightly as current_char.  The
\* operator the loop stops at has left the stack.
RECURSIVE PopWhile(_, _, _)
PopWhile(current_char, operator, st) ==
    IF st.err # "" THEN st
    ELSE IF operator # "" /\ Priority(current_char) <= Priority(operator)
    THEN CHOOSE r \in
           {PopWhile(current_char, PopOperator(ev.operators).top,
                     [ev EXCEPT !.operators = PopOperator(ev.operators).rest]) :
              ev \in {EvaluateOperation(operator, st)}} : TRUE
    ELSE [st EXCEPT !.discarded = @ + (IF operator # "" THEN 1 ELSE 0)]

\* lines 99-102: perform the remaining operations
RECURSIVE Drain(_)
Drain(st) ==
    CHOOSE r \in
      {IF s.err # "" \/ s.operators = <<>> THEN s
       ELSE Drain(EvaluateOperation(PopOperator(s.operators).top,
                    [s EXCEPT !.operators = PopOperator(s.operators).rest])) :
         s \in {st}} : TRUE

\* lines 53-59: the index of the ')' that closes the bracket opened before i
RECURSIVE ClosingBracket(_, _, _)
ClosingBracket(regex, i, opened_brackets) ==
    LET opened == IF regex[i] = ")" THEN opened_brackets - 1
                  ELSE IF regex[i] = "(" THEN opened_brackets + 1
                  ELSE opened_brackets
    IN  IF opened = 0 THEN i ELSE ClosingBracket(regex, i + 1, opened)

\* what from_regex pushes for the result r of a nested call
Pushed(r) == IF r.none THEN NoneV ELSE Some(r.nfa)

\* lines 48-78: the operand that starts at index i (a bracketed regex, an
\* escaped character, a range, a character) and the index after it
RECURSIVE FromRegex(_, _)
Operand(regex, i, c) ==
    IF regex[i] = "("
    THEN CHOOSE r \in
           {[top |-> Pushed(sub), cni |-> sub.cni, err |-> sub.err,
             evaluated |-> sub.evaluated, discarded |-> sub.discarded,
             next |-> close + 1] :
              close \in {ClosingBracket(regex, i + 1, 1)},
              sub \in {FromRegex(SubSeq(regex, i + 1,
                                        ClosingBracket(regex, i + 1, 1) - 1), c)}}
           : TRUE
    ELSE CHOOSE r \in
           {[top |-> Some(x.r.self), cni |-> x.r.cni, err |-> x.r.err,
             evaluated |-> 0, discarded |-> 0, next |-> x.next] :
              x \in {IF i < Len(regex) /\ regex[i] = "\\"
                     THEN [r |-> IF regex[i + 1] = "L" THEN Empty(c)
                                 ELSE FromSimpleRegex(<<regex[i + 1]>>, c),
                           next |-> i + 2]
                     ELSE IF i < Len(regex) - 1 /\ regex[i + 1] = "-"
                     THEN [r |-> FromSimpleRegex(SubSeq(regex, i, i + 2), c),
                           next |-> i + 3]
                     ELSE [r |-> FromSimpleRegex(<<regex[i]>>, c),
                           next |-> i + 1]}} : TRUE

\* lines 80-96: the operator current_char meets the operator stack of st
PushOperator(current_char, st) ==
    IF st.operators # <<>> /\ Priority(current_char) < Priority(Peek(st.operators))
    THEN CHOOSE r \in
           {[w EXCEPT !.operators = Append(@, current_char)] :
              w \in {PopWhile(current_char, PopOperator(st.operators).top,
                              [st EXCEPT !.operators =
                                  PopOperator(st.operators).rest])}} : TRUE
    ELSE [st EXCEPT !.operators = Append(@, current_char)]

\* the while loop of NFA.from_regex at (1-based) index i
RECURSIVE Scan(_, _, _)
Scan(regex, i, st) ==
    IF st.err # "" \/ i > Len(regex) THEN st
    ELSE IF regex[i] \notin Operators
    THEN CHOOSE r \in
           {Scan(regex, o.next,
                 [st EXCEPT !.operands = Append(@, o.top),
                            !.cni = o.cni, !.err = o.err,
                            !.evaluated = @ + o.evaluated,
                            !.discarded = @ + o.discarded]) :
              o \in {Operand(regex, i, st.cni)}} : TRUE
    ELSE CHOOSE r \in
           {Scan(regex, i + 1, s) : s \in {PushOperator(regex[i], st)}} : TRUE

\* NFA.from_regex started with the counter at c.  none: it returned None;
\* left: the operands on the stack when the operator stack had been drained;
\* evaluated, discarded: the operators evaluate_operation was called on, and
\* those that left the operator stack without it
FromRegex(regex, c) ==
    CHOOSE r \in
      {[nfa |-> PopOperand(st.operands).top.nfa,
        none |-> st.err # "" \/ PopOperand(st.operands).top.none,
        cni |-> st.cni, err |-> st.err, left |-> Len(st.operands),
        evaluated |-> st.evaluated, discarded |-> st.discarded] :
         st \in {Drain(Scan(regex, 1,
                   [operands |-> <<>>, operators |-> <<>>, cni |-> c,
                    err |-> "", evaluated |-> 0, discarded |-> 0]))}} : TRUE

\* token_nfa.graph.node[token_nfa.end_node]['acceptance'] = token_name
Labelled(nfa, name) ==
    [nfa EXCEPT !.graph = SetAcceptance(@, nfa.end, name)]

\* lines 26-30: one pass of the for loop of NFA.from_tokens, token joins acc
JoinToken(token, acc) ==
    CHOOSE x \in
      {IF r.none
       THEN [acc EXCEPT !.err = IF r.err # "" THEN r.err ELSE "AttributeError",
                        !.cni = r.cni]
       ELSE (CHOOSE y \in
              {[acc EXCEPT !.nfa = u.self, !.cni = u.cni,
                           !.ends = Append(@, r.nfa.end)] :
                 u \in {Union(acc.nfa, Labelled(r.nfa, token.name), r.cni)}}
              : TRUE) :
         r \in {FromRegex(AddConcatenationOperatorToRegex(token.regex),
                          acc.cni)}} : TRUE

\* the for loop of NFA.from_tokens over tokens[k..]; ends collects each
\* token_nfa.end_node
RECURSIVE UnionTokens(_, _, _)
UnionTokens(tokens, k, acc) ==
    IF acc.err # "" \/ k > Len(tokens) THEN acc
    ELSE CHOOSE x \in
           {UnionTokens(tokens, k + 1, a) : a \in {JoinToken(tokens[k], acc)}}
           : TRUE

\* lines 23-25 of NFA.from_tokens: the first token's automaton
FirstToken(token, c) ==
    CHOOSE x \in
      {[nfa |-> IF r.none THEN NewNFA ELSE Labelled(r.nfa, token.name),
        cni |-> r.cni,
        err |-> IF ~ r.none THEN ""
                ELSE IF r.err # "" THEN r.err ELSE "AttributeError",
        ends |-> IF r.none THEN <<>> ELSE <<r.nfa.end>>] :
         r \in {FromRegex(AddConcatenationOperatorToRegex(token.regex), c)}}
      : TRUE

FromTokensAnyList(tokens, c) ==
    IF Len(tokens) > 0
    THEN CHOOSE x \in
           {[nfa |-> all.nfa, none |-> all.err # "", cni |-> all.cni,
             err |-> all.err, ends |-> all.ends] :
              all \in {UnionTokens(tokens, 2, FirstToken(tokens[1], c))}} : TRUE
    ELSE [nfa |-> Empty(c).self, none |-> FALSE, cni |-> Empty(c).cni,
          err |-> "", ends |-> <<>>]

\* NFA.from_tokens; a token is [name, regex]
FromTokens(tokens, c) ==
    IF Len(tokens) > 0
    THEN CHOOSE x \in
           {[nfa |-> all.nfa, none |-> all.err # "", cni |-> all.cni,
             err |-> all.err, ends |-> all.ends] :
              all \in {UnionTokens(tokens, 2, FirstToken(tokens[1], c))}} : TRUE
    ELSE [nfa |-> NewNFA, none |-> TRUE, cni |-> c, err |-> "ValueError",
          ends |-> <<>>]

----------------------------------------------------------------------------
(* The caller's objects.  slots[i] is an NFA object, cells[slots[i].cell] the
   MultiDiGraph object its graph attribute refers to; two objects whose cell
   is the same hold one graph object. *)

Obj(i) == [start |-> slots[i].start, end |-> slots[i].end,
           graph |-> cells[slots[i].cell]]

Initialized(i) == slots[i].start # None /\ slots[i].end # None

\* a slot nothing has been built in: NFA() as constructed
Blank(i) == slots[i].start = None /\ slots[i].end = None
            /\ cells[slots[i].cell] = EmptyGraph

\* the cells that objects other than those of skip refer to
Referenced(skip) == {slots[k].cell : k \in Slots \ skip}

\* where a newly created graph object of slot i goes
NewCell(i, taken) ==
    IF slots[i].cell \notin Referenced({i}) \cup taken THEN slots[i].cell
    ELSE CHOOSE c \in Slots : c \notin Referenced({i}) \cup taken

NoRet == [op |-> "", slot |-> 0, src |-> {}, inputs |-> {}, nodes |-> {},
          out |-> {}, depth |-> 0, pre |-> NewNFA, arg |-> NewNFA,
          err |-> "", none |-> FALSE, left |-> 0, evaluated |-> 0,
          discarded |-> 0, ends |-> <<>>, word |-> <<>>,
          found |-> FALSE, index |-> 0,
          new_state |-> [index |-> 0, NFAStates |-> {}]]

EmptyMemo == [x \in {} |-> {}]

\* the highest state id a run may allocate
IdCap ==
    CASE pc = "engine" -> MaxQueryId
      [] pc = "range"  -> MaxRangeId
      [] OTHER         -> MaxId

InitObjects ==
    /\ cni = 1
    /\ memo = EmptyMemo
    /\ slots = [i \in Slots |-> [start |-> None, end |-> None, cell |-> i]]
    /\ cells = [c \in Slots |-> EmptyGraph]
    /\ ret = NoRet
    /\ inp = <<>>
    /\ states = <<>>

\* slot i := a newly built fragment r.self, built from regex
Bind(i, r, op, regex) ==
    LET c == NewCell(i, {})
    IN  /\ slots' = [slots EXCEPT ![i] = [start |-> r.self.start,
                                          end |-> r.self.end, cell |-> c]]
        /\ cells' = [cells EXCEPT ![c] = r.self.graph]
        /\ cni' = r.cni
        /\ ret' = [NoRet EXCEPT !.op = op, !.slot = i, !.word = regex]
        /\ UNCHANGED <<memo, inp, pc, states>>

\* x = NFA.from_simple_regex(c) for a character c
MkLiteral(i, c) ==
    /\ Blank(i)
    /\ cni + 1 <= IdCap
    /\ Bind(i, FromSimpleRegex(<<c>>, cni), "literal", <<c>>)

\* x = NFA.from_simple_regex('a-b')
MkRange(i, a, b) ==
    /\ Blank(i)
    /\ Ord(a) < Ord(b)
    /\ cni + 1 + 2 * (Ord(b) - Ord(a) + 1) <= IdCap
    /\ Bind(i, FromSimpleRegex(<<a, "-", b>>, cni), "range", <<a, "-", b>>)

\* x = NFA.empty()
MkEmpty(i) ==
    /\ Blank(i)
    /\ cni + 1 <= IdCap
    /\ Bind(i, Empty(cni), "empty", <<>>)

\* x.concatenate(y) as evaluate_operation calls it: y is popped and dropped
DoConcat(i, j) ==
    /\ i # j /\ Initialized(i) /\ Initialized(j)
    /\ LET r  == Concatenate(Obj(i), Obj(j))
           ci == NewCell(i, {})
           cj == NewCell(j, {ci})
       IN  /\ slots' = [slots EXCEPT
                          ![i] = [start |-> r.self.start, end |-> r.self.end,
                                  cell |-> ci],
                          ![j] = [start |-> None, end |-> None, cell |-> cj]]
           /\ cells' = [c \in Slots |->
                          IF c = ci THEN r.self.graph
                          ELSE IF c = cj THEN EmptyGraph
                          ELSE IF c = slots[i].cell THEN r.inplace
                          ELSE cells[c]]
           /\ ret' = [NoRet EXCEPT !.op = "concatenate", !.slot = i,
                                   !.pre = Obj(i), !.arg = Obj(j)]
    /\ UNCHANGED <<cni, memo, inp, pc, states>>

\* acc.concatenate(y) on the accumulator placeholder acc = NFA()
DoConcatPlaceholder(i, j) ==
    /\ i # j /\ Blank(i) /\ Initialized(j)
    /\ LET r == Concatenate(Obj(i), Obj(j))
       IN  /\ slots' = [slots EXCEPT ![i] = [start |-> r.self.start,
                                             end |-> r.self.end,
                                             cell |-> slots[j].cell]]
           /\ ret' = [NoRet EXCEPT !.op = "placeholder", !.slot = i,
                                   !.pre = Obj(i), !.arg = Obj(j)]
    /\ UNCHANGED <<cni, memo, cells, inp, pc, states>>

\* x.union(y) as evaluate_operation calls it: y is popped and dropped
DoUnion(i, j) ==
    /\ i # j /\ Initialized(i) /\ Initialized(j)
    /\ cni + 1 <= IdCap
    /\ LET r  == Union(Obj(i), Obj(j), cni)
           ci == NewCell(i, {})
           cj == NewCell(j, {ci})
       IN  /\ slots' = [slots EXCEPT
                          ![i] = [start |-> r.self.start, end |-> r.self.end,
                                  cell |-> ci],
                          ![j] = [start |-> None, end |-> None, cell |-> cj]]
           /\ cells' = [c \in Slots |->
                          IF c = ci THEN r.self.graph
                          ELSE IF c = cj THEN EmptyGraph
                          ELSE IF c = slots[i].cell THEN r.inplace
                          ELSE cells[c]]
           /\ cni' = r.cni
           /\ ret' = [NoRet EXCEPT !.op = "union", !.slot = i,
                                   !.pre = Obj(i), !.arg = Obj(j)]
    /\ UNCHANGED <<memo, inp, pc, states>>

\* x.kleene_closure()
DoKleene(i) ==
    /\ Initialized(i)
    /\ cni + 1 <= IdCap
    /\ LET r == KleeneClosure(Obj(i), cni)
       IN  /\ slots' = [slots EXCEPT ![i].start = r.self.start,
                                     ![i].end = r.self.end]
           /\ cells' = [cells EXCEPT ![slots[i].cell] = r.self.graph]
           /\ cni' = r.cni
           /\ ret' = [NoRet EXCEPT !.op = "kleene_closure", !.slot = i,
                                   !.pre = Obj(i)]
    /\ UNCHANGED <<memo, inp, pc, states>>

\* x.plus(), on a fragment that has no end -> start edge yet
DoPlus(i) ==
    /\ Initialized(i)
    /\ ~ \E e \in Obj(i).graph.edges :
             e.u = slots[i].end /\ e.v = slots[i].start
    /\ LET r == Plus(Obj(i))
       IN  /\ cells' = [cells EXCEPT ![slots[i].cell] = r.graph]
           /\ ret' = [NoRet EXCEPT !.op = "plus", !.slot = i, !.pre = Obj(i)]
    /\ UNCHANGED <<cni, memo, slots, inp, pc, states>>

\* the sets of states a caller hands to a query on slot i
Sources(i) ==
    {S \in SUBSET cells[slots[i].cell].nodes :
        S # {} /\ Cardinality(S) <= MaxSrc}

\* x.get_epsilon_closures(S)
QClosure(i, S) ==
    /\ \E r \in {GetEpsilonClosures(cells[slots[i].cell], memo, S, 0)} :
           /\ memo' = r.memo
           /\ ret' = [NoRet EXCEPT !.op = "closure", !.slot = i, !.src = S,
                                   !.nodes = r.nodes, !.out = r.nodes,
                                   !.depth = r.depth]
    /\ UNCHANGED <<cni, slots, cells, inp, pc, states>>

\* x.move(S, inputs)
QMove(i, S, inputs) ==
    /\ \E r \in {Move(cells[slots[i].cell], memo, S, inputs)} :
           /\ memo' = r.memo
           /\ ret' = [NoRet EXCEPT !.op = "move", !.slot = i, !.src = S,
                                   !.inputs = inputs, !.nodes = r.nodes,
                                   !.out = r.destination]
    /\ UNCHANGED <<cni, slots, cells, inp, pc, states>>

InputSets == {{"0"}, {EpsChar}, {"0", "1"}}

\* the characters literals are built for
LiteralChars == IF pc = "engine" THEN {"0"} ELSE {"0", "1"}

\* the second slot is used once the first holds a fragment
Usable(i) == i = 1 \/ ~ Blank(1)

Build ==
    \/ \E i \in Slots, c \in LiteralChars : Usable(i) /\ MkLiteral(i, c)
    \/ \E i \in Slots : Usable(i) /\ MkEmpty(i)
    \/ \E i, j \in Slots : DoConcat(i, j)
    \/ \E i \in Slots : DoKleene(i)
    \/ \E i \in Slots : DoPlus(i)

\* the characters ranges are built between
RangeChars == {"0", "1", "2"}

InitAlgebra == InitObjects /\ pc = "algebra"

NextAlgebra ==
    \/ Build
    \/ \E i \in Slots, a \in RangeChars, b \in RangeChars :
          Usable(i) /\ MkRange(i, a, b)
    \/ \E i, j \in Slots : DoConcatPlaceholder(i, j)
    \/ \E i, j \in Slots : DoUnion(i, j)

\* fragments are built and combined; nothing queries them
SpecAlgebra == InitAlgebra /\ [][NextAlgebra]_vars

InitEngine == InitObjects /\ pc = "engine"

NextEngine ==
    \/ Build
    \/ \E i \in Slots : \E S \in Sources(i) : QClosure(i, S)
    \/ \E i \in Slots : \E S \in Sources(i) : \E x \in InputSets : QMove(i, S, x)

\* fragments are built and combined, and queried at any point in between
SpecEngine == InitEngine /\ [][NextEngine]_vars

InitRange == InitObjects /\ pc = "range"

NextRange ==
    \/ \E i \in Slots, a \in RangeChars, b \in RangeChars :
          Usable(i) /\ MkRange(i, a, b)
    \/ \E i \in Slots : \E S \in Sources(i) : QClosure(i, S)
    \/ \E i \in Slots : \E S \in Sources(i) : \E x \in InputSets : QMove(i, S, x)

\* ranges are built and queried
SpecRange == InitRange /\ [][NextRange]_vars

----------------------------------------------------------------------------
(* Composite states.  A composite state is [index, NFAStates]; FA.states is
   the list of those registered so far. *)

\* the for loop of FA.state_exists over states[k..]
RECURSIVE StateExistsFrom(_, _, _)
StateExistsFrom(registry, k, new_state) ==
    IF k > Len(registry) THEN <<FALSE, new_state.index>>
    ELSE IF new_state.NFAStates = registry[k].NFAStates
    THEN <<TRUE, registry[k].index>>
    ELSE StateExistsFrom(registry, k + 1, new_state)

\* FA.state_exists: the pair returned
StateExists(registry, new_state) == StateExistsFrom(registry, 1, new_state)

\* the composite states a caller hands over
Candidates ==
    [index : 0..MaxIndex, NFAStates : (SUBSET (1..MaxNfaId)) \ {{}}]

\* fa.state_exists(new_state)
Lookup(new_state) ==
    /\ pc = "registry"
    /\ \E r \in {StateExists(states, new_state)} :
          ret' = [NoRet EXCEPT !.op = "state_exists", !.new_state = new_state,
                               !.found = r[1], !.index = r[2]]
    /\ UNCHANGED <<cni, memo, slots, cells, inp, pc, states>>

\* the caller registers a composite state whose set and whose index no
\* registered state has
Register(new_state) ==
    /\ pc = "registry"
    /\ Len(states) < MaxStates
    /\ \A k \in 1..Len(states) :
          /\ states[k].NFAStates # new_state.NFAStates
          /\ states[k].index # new_state.index
    /\ states' = Append(states, new_state)
    /\ ret' = [NoRet EXCEPT !.op = "append", !.new_state = new_state]
    /\ UNCHANGED <<cni, memo, slots, cells, inp, pc>>

InitRegistry == InitObjects /\ pc = "registry"

NextRegistry ==
    \/ \E c \in Candidates : Lookup(c)
    \/ \E c \in Candidates : Register(c)

\* composite states are looked up and registered
SpecRegistry == InitRegistry /\ [][NextRegistry]_vars

----------------------------------------------------------------------------
(* Compiling and scanning: the driver of main.py.  inp is the regex or the
   token list handed to the compiler; the compiled automaton goes to slot 1
   and is then stepped over a word, one character at a time, the way a
   determinizer walks it: S := closure(move(S, c)). *)

MaxTokens == 2      \* longest token list compiled

Star0 == <<"0", "*">>
Plus1 == <<"1", "+">>
Cat01 == <<"0", "&", "1">>
Star0Cat1 == <<"0", "*", "&", "1">>
Cat1Star0 == <<"1", "&", "0", "*">>

\* operands of a union: literals, starred or plussed operands, concatenations
Terms == {<<"0">>, <<"1">>, Star0, Plus1, Cat01, Star0Cat1, Cat1Star0}

RegexInput(r, a, b) == [kind |-> "regex", regex |-> r, a |-> a, b |-> b,
                        tokens |-> <<>>]

UnionInputs == {RegexInput(a \o <<"|">> \o b, a, b) : a \in Terms, b \in Terms}

\* regexes that leave no operand, or several, once the operators are drained
OtherRegexes == {<<>>, <<"0", "1">>, <<"0", "1", "0">>, <<"0", "*", "1">>,
                 <<"0">>, <<"0", "-", "1">>, <<"\\", "L">>, <<"\\", "*">>,
                 <<"(", "0", "|", "1", ")", "*", "&", "0">>}

PlainInputs == {RegexInput(r, <<>>, <<>>) : r \in OtherRegexes}

BiboRegex == <<"(", "0", "|", "1", ")", "*", "0">>
TokenRegexes == {BiboRegex, <<"0", "1">>, <<"1", "+">>}
TokenNames == <<"bibo", "id", "num">>

TokenLists ==
    UNION {{[k \in 1..n |-> [name |-> TokenNames[k], regex |-> f[k]]] :
               f \in [1..n -> TokenRegexes]} : n \in 0..MaxTokens}

TokenInputs == {[kind |-> "tokens", regex |-> <<>>, a |-> <<>>, b |-> <<>>,
                 tokens |-> t] : t \in TokenLists}

\* main.py, lines 6-8
BiboTokens == <<[name |-> "bibo", regex |-> BiboRegex]>>

InitCompile ==
    /\ cni \in 1..MaxStartCni
    /\ memo = EmptyMemo
    /\ slots = [i \in Slots |-> [start |-> None, end |-> None, cell |-> i]]
    /\ cells = [c \in Slots |-> EmptyGraph]
    /\ ret = NoRet
    /\ inp \in UnionInputs \cup PlainInputs \cup TokenInputs
    /\ pc = "ready"
    /\ states = <<>>

\* nfa = NFA.from_regex(regex)
CompileRegex ==
    /\ pc = "ready" /\ inp.kind = "regex"
    /\ \E r \in {FromRegex(inp.regex, cni)} :
           /\ slots' = [slots EXCEPT ![1] = [start |-> r.nfa.start,
                                             end |-> r.nfa.end, cell |-> 1]]
           /\ cells' = [cells EXCEPT ![1] = r.nfa.graph]
           /\ cni' = r.cni
           /\ ret' = [NoRet EXCEPT !.op = "from_regex", !.slot = 1,
                                   !.err = r.err, !.none = r.none,
                                   !.left = r.left,
                                   !.evaluated = r.evaluated,
                                   !.discarded = r.discarded]
    /\ pc' = "compiled"
    /\ UNCHANGED <<memo, inp, states>>

\* nfa = NFA.from_tokens(tokens)
CompileTokens ==
    /\ pc = "ready" /\ inp.kind = "tokens"
    /\ \E r \in {FromTokens(inp.tokens, cni)} :
           /\ slots' = [slots EXCEPT ![1] = [start |-> r.nfa.start,
                                             end |-> r.nfa.end, cell |-> 1]]
           /\ cells' = [cells EXCEPT ![1] = r.nfa.graph]
           /\ cni' = r.cni
           /\ ret' = [NoRet EXCEPT !.op = "from_tokens", !.slot = 1,
                                   !.err = r.err, !.none = r.none,
                                   !.ends = r.ends]
    /\ pc' = "compiled"
    /\ UNCHANGED <<memo, inp, states>>

\* S = nfa.get_epsilon_closures({nfa.start_node})
StartScan ==
    /\ pc = "compiled" /\ ~ ret.none
    /\ \E r \in {GetEpsilonClosures(cells[1], memo, {slots[1].start}, 0)} :
           /\ memo' = r.memo
           /\ ret' = [NoRet EXCEPT !.op = "scan", !.slot = 1,
                                   !.src = {slots[1].start},
                                   !.nodes = r.nodes, !.out = r.nodes,
                                   !.ends = ret.ends]
    /\ pc' = "scanning"
    /\ UNCHANGED <<cni, slots, cells, inp, states>>

\* S = nfa.get_epsilon_closures(nfa.move(S, c))
Step(c) ==
    /\ pc = "scanning" /\ Len(ret.word) < MaxWord
    /\ \E m \in {Move(cells[1], memo, ret.out, {c})} :
         \E r \in {GetEpsilonClosures(cells[1], m.memo, m.destination, 0)} :
           /\ memo' = r.memo
           /\ ret' = [ret EXCEPT !.src = ret.out, !.inputs = {c},
                                 !.nodes = m.nodes, !.out = r.nodes,
                                 !.word = Append(@, c)]
    /\ UNCHANGED <<cni, slots, cells, inp, pc, states>>

NextCompile ==
    \/ CompileRegex
    \/ CompileTokens
    \/ StartScan
    \/ \E c \in {"0", "1"} : Step(c)

SpecCompile == InitCompile /\ [][NextCompile]_vars

----------------------------------------------------------------------------
(* What an automaton accepts, read off its graph: the language of the NFA
   whose epsilon edges are those labelled FA.epsilon and whose other edges
   consume the character they were built for. *)

\* the edge was built for character c by literal or by range construction
BuiltFor(w, c) == w = StrW(Repr(<<c>>)) \/ w = IntW(Ord(c))

EpsilonSuccessors(g, S) ==
    S \cup {e.v : e \in {x \in g.edges : x.u \in S /\ x.w = Epsilon}}

\* the least set that contains S and is closed under epsilon edges
RECURSIVE EpsilonReach(_, _)
EpsilonReach(g, S) ==
    LET T == EpsilonSuccessors(g, S)
    IN  IF T = S THEN S ELSE EpsilonReach(g, T)

CharStep(g, S, c) ==
    {e.v : e \in {x \in g.edges :
                    x.u \in S /\ x.w # Epsilon /\ BuiltFor(x.w, c)}}

RECURSIVE Run(_, _, _)
Run(g, S, w) ==
    IF w = <<>> THEN S
    ELSE Run(g, EpsilonReach(g, CharStep(g, S, Head(w))), Tail(w))

Accepts(f, w) == f.end \in Run(f.graph, EpsilonReach(f.graph, {f.start}), w)

Words == UNION {[1..n -> {"0", "1"}] : n \in 0..MaxLen}

\* w is a concatenation of zero or more words f accepts
RECURSIVE InStar(_, _)
InStar(f, w) ==
    \/ w = <<>>
    \/ \E k \in 1..Len(w) :
          Accepts(f, SubSeq(w, 1, k)) /\ InStar(f, SubSeq(w, k + 1, Len(w)))

\* w is a concatenation of one or more words f accepts
InPlus(f, w) ==
    \E k \in 0..Len(w) :
       Accepts(f, SubSeq(w, 1, k)) /\ InStar(f, SubSeq(w, k + 1, Len(w)))

Queried == cells[slots[ret.slot].cell]

----------------------------------------------------------------------------
(* Claims *)

\* C1: for the token set [("bibo", "(0|1)*0")], stepping S := closure(move(S, c))
\* over a word from closure({start_node}) ends in a set whose acceptance label
\* is "bibo" exactly when the word is non-empty and ends in '0'; otherwise
\* check_acceptance finds no accepting state.
C1_BiboScan ==
    (pc = "scanning" /\ inp.kind = "tokens" /\ inp.tokens = BiboTokens) =>
        LET w == ret.word
            found == CheckAcceptance(cells[1], ret.out)
        IN  IF w # <<>> /\ w[Len(w)] = "0"
            THEN found = {<<TRUE, "bibo">>}
            ELSE found = {<<FALSE, "">>}

C1_Witness ==
    /\ pc = "scanning" /\ inp.kind = "tokens" /\ inp.tokens = BiboTokens
    /\ ret.word = <<"1", "0", "1", "0">>
    /\ CheckAcceptance(cells[1], ret.out) = {<<TRUE, "bibo">>}

C3_ClosureIsLeastFixpoint ==
    ret.op = "closure" => ret.out = EpsilonReach(Queried, ret.src)

\* C4: the closure memoized for a state id is the set of that state and its
\* epsilon successors in the current graph of the automaton queried, whatever
\* fragment operators ran between the queries.
C4_MemoStaysValid ==
    ret.op \in {"closure", "move"} =>
        \A x \in ret.nodes :
           memo[x] = EpsilonSuccessors(Queried, {x})

\* C6 (as claimed): kleene_closure(A) accepts exactly the concatenations of zero
\* or more words of A, and plus(A) accepts that set minus the empty word.
C6_PlusNeverEmpty ==
    /\ ret.op = "kleene_closure" =>
          \A w \in Words : Accepts(Obj(ret.slot), w) <=> InStar(ret.pre, w)
    /\ ret.op = "plus" =>
          \A w \in Words :
             Accepts(Obj(ret.slot), w) <=> (w # <<>> /\ InStar(ret.pre, w))

\* C6 (amended): kleene_closure(A) accepts exactly the concatenations of zero
\* or more words of A, and plus(A) exactly the concatenations of one or more
\* words of A, so plus(A) accepts the empty word exactly when A does.
C6_StarAndPlus ==
    /\ ret.op = "kleene_closure" =>
          \A w \in Words : Accepts(Obj(ret.slot), w) <=> InStar(ret.pre, w)
    /\ ret.op = "plus" =>
          \A w \in Words : Accepts(Obj(ret.slot), w) <=> InPlus(ret.pre, w)

C6_Witness ==
    /\ ret.op = "plus"
    /\ Accepts(ret.pre, <<>>)
    /\ Accepts(Obj(ret.slot), <<>>)
    /\ \E w \in Words : Accepts(Obj(ret.slot), w) /\ ~ Accepts(ret.pre, w)

AllNodes == UNION {cells[c].nodes : c \in Slots}

\* C7: every id get_node_index returns is greater than every id returned
\* before (the ids of a step are those from the old counter up to the new
\* one), so every state id in use is below the counter and the two graphs
\* handed to concatenate or union share no state id.
C7_IdsNeverReused ==
    /\ [](/\ \A n \in AllNodes : 1 <= n /\ n < cni
          /\ ret.op \in {"concatenate", "union"} =>
                ret.pre.graph.nodes \cap ret.arg.graph.nodes = {})
    /\ [][/\ cni' >= cni
          /\ \A n \in AllNodes' \ AllNodes : cni <= n /\ n < cni']_vars

C7_Witness ==
    /\ ret.op = "union"
    /\ Cardinality(ret.pre.graph.nodes) >= 2
    /\ Cardinality(ret.arg.graph.nodes) >= 2
    /\ Obj(ret.slot).graph.nodes =
          ret.pre.graph.nodes \cup ret.arg.graph.nodes
             \cup {slots[ret.slot].start, slots[ret.slot].end}

\* C5: the automaton from_regex compiles from A|B accepts a word exactly when
\* the automaton compiled from A or the one compiled from B accepts it.
C5_UnionOfRegexes ==
    (pc = "compiled" /\ ret.op = "from_regex" /\ inp.a # <<>>) =>
        /\ ~ ret.none
        /\ \A w \in Words :
              Accepts(Obj(1), w) <=>
                 \/ Accepts(FromRegex(inp.a, 1).nfa, w)
                 \/ Accepts(FromRegex(inp.b, 1).nfa, w)

RangeOf(seq) == {seq[k] : k \in 1..Len(seq)}

\* C8: after from_tokens on a non-empty list of tokens with distinct names,
\* each token's end state is a node of the combined graph labelled with that
\* token's name, and no other state (the states union creates among them)
\* carries an acceptance label.
C8_TokenLabelsKept ==
    (pc = "compiled" /\ ret.op = "from_tokens" /\ Len(inp.tokens) > 0) =>
        /\ ~ ret.none
        /\ Len(ret.ends) = Len(inp.tokens)
        /\ \A k \in 1..Len(inp.tokens) :
              /\ ret.ends[k] \in cells[1].nodes
              /\ IsAcceptanceNode(cells[1], ret.ends[k])
              /\ GetTokenNameFromAcceptanceNode(cells[1], ret.ends[k])
                    = inp.tokens[k].name
              /\ \A p \in cells[1].acc :
                    p[1] = ret.ends[k] => p[2] = inp.tokens[k].name
        /\ \A n \in cells[1].nodes \ RangeOf(ret.ends) :
              ~ IsAcceptanceNode(cells[1], n)
        /\ Len(inp.tokens) > 1 =>
              {slots[1].start, slots[1].end} \cap RangeOf(ret.ends) = {}

C8_Witness ==
    /\ pc = "compiled" /\ ret.op = "from_tokens"
    /\ Len(inp.tokens) = 2 /\ Len(ret.ends) = 2
    /\ ret.ends[1] # ret.ends[2]
    /\ GetTokenNameFromAcceptanceNode(cells[1], ret.ends[1]) = "bibo"
    /\ GetTokenNameFromAcceptanceNode(cells[1], ret.ends[2]) = "id"

\* C9: when the operator stack has been drained and the operand stack does not
\* hold exactly one fragment, from_regex fails with MalformedOperatorSequence
\* and returns no automaton.
C9_MalformedSequenceFails ==
    (pc = "compiled" /\ ret.op = "from_regex" /\ ret.err # "AttributeError"
       /\ ret.left # 1) =>
        ret.err = "MalformedOperatorSequence" /\ ret.none

\* C10: in move an epsilon transition matches no input symbol, and a transition
\* built for the character c matches an input exactly when the input is c: the
\* result holds the destinations of the literal transitions from
\* closure(sources) whose character is among the inputs.
C10_EpsilonNeverMatches ==
    ret.op = "move" =>
        \A d \in Queried.nodes :
           d \in ret.out <=>
              \E e \in Queried.edges :
                 /\ e.u \in ret.nodes /\ e.v = d
                 /\ e.w # Epsilon
                 /\ \E x \in ret.inputs : BuiltFor(e.w, x)

\* the calls that produce a fragment from fragments these calls produced
FragmentOps == {"literal", "range", "empty", "concatenate", "union",
                "kleene_closure", "plus"}

\* C11: the value a fragment operator produces has one start and one end:
\* start_node and end_node are defined, differ, and are nodes of its graph.
C11_OneStartOneEnd ==
    ret.op \in FragmentOps =>
        LET f == Obj(ret.slot)
        IN  /\ f.start # None /\ f.end # None
            /\ f.start # f.end
            /\ {f.start, f.end} \subseteq f.graph.nodes

C11_Witness ==
    /\ ret.op = "range"
    /\ Cardinality(Obj(ret.slot).graph.nodes) = 6
    /\ slots[ret.slot].start # slots[ret.slot].end
    /\ {slots[ret.slot].start, slots[ret.slot].end}
          \subseteq Obj(ret.slot).graph.nodes

\* the strings a range is tried on
RangeWords == UNION {[1..n -> {"0", "1", "2", "-"}] : n \in 0..2}

\* the characters of the range a-b
Between(a, b) == {k \in OrdChars : Ord(a) <= Ord(k) /\ Ord(k) <= Ord(b)}

\* C12: the fragment built for the range a-b, a < b, accepts exactly the
\* one-character strings whose character lies between a and b; every such
\* character k has a branch start -eps-> gate_k -k-> inner_k -eps-> end of its
\* own, and the graph holds nothing else.
C12_RangeAcceptsItsCharacters ==
    ret.op = "range" =>
        LET f == Obj(ret.slot)
            ks == Between(ret.word[1], ret.word[3])
            Edge(u, v, w) == [u |-> u, v |-> v, k |-> 0, w |-> w] \in f.graph.edges
        IN  /\ \A w \in RangeWords :
                  Accepts(f, w) <=> (Len(w) = 1 /\ w[1] \in ks)
            /\ \E gate, inner \in [ks -> f.graph.nodes \ {f.start, f.end}] :
                  /\ \A k \in ks :
                        /\ Edge(f.start, gate[k], Epsilon)
                        /\ Edge(gate[k], inner[k], IntW(Ord(k)))
                        /\ Edge(inner[k], f.end, Epsilon)
                  /\ \A j, k \in ks :
                        /\ gate[j] # inner[k]
                        /\ j # k => gate[j] # gate[k] /\ inner[j] # inner[k]
            /\ Cardinality(f.graph.edges) = 3 * Cardinality(ks)
            /\ Cardinality(f.graph.nodes) = 2 + 2 * Cardinality(ks)

C12_Witness ==
    /\ ret.op = "range"
    /\ ret.word = <<"0", "-", "2">>
    /\ Accepts(Obj(ret.slot), <<"1">>)
    /\ ~ Accepts(Obj(ret.slot), <<"-">>)
    /\ ~ Accepts(Obj(ret.slot), <<"1", "1">>)

\* C13: get_epsilon_closures called on the set a call of it has just returned
\* returns that set.
C13_ClosureIdempotent ==
    ret.op = "closure" =>
        GetEpsilonClosures(Queried, memo, ret.out, 0).nodes = ret.out

C13_Witness ==
    /\ ret.op = "closure"
    /\ ret.depth >= 2
    /\ ret.out # ret.src
    /\ GetEpsilonClosures(Queried, memo, ret.out, 0).nodes = ret.out

\* C14: from_tokens on an empty token list raises the error for an empty token
\* list (ValueError, "Tokens list can't be empty") and returns no automaton;
\* the call allocates no state id and builds no graph.
C14_EmptyTokenList ==
    /\ []((pc = "compiled" /\ ret.op = "from_tokens" /\ inp.tokens = <<>>) =>
            /\ ret.err = "ValueError" /\ ret.none
            /\ \A c \in Slots : cells[c] = EmptyGraph)
    /\ [][(pc = "ready" /\ inp.kind = "tokens" /\ inp.tokens = <<>>) =>
            (cni' = cni /\ cells' = cells)]_vars

C14_Witness ==
    /\ pc = "compiled" /\ ret.op = "from_tokens"
    /\ inp.kind = "tokens" /\ inp.tokens = <<>>
    /\ ret.err = "ValueError" /\ ret.none
    /\ cni = MaxStartCni

\* C15: state_exists on a candidate whose set of NFA states a registered state
\* has reports that it exists and returns that state's index; otherwise it
\* reports that it does not and returns an index no registered state has.
C15_CanonicalIds ==
    ret.op = "state_exists" =>
        LET same == {k \in 1..Len(states) :
                       states[k].NFAStates = ret.new_state.NFAStates}
        IN  IF same # {}
            THEN ret.found /\ \E k \in same : ret.index = states[k].index
            ELSE /\ ~ ret.found
                 /\ \A k \in 1..Len(states) : states[k].index # ret.index

\* the operator symbols of a regex: '*', '&', '|', '+' that no backslash escapes
RECURSIVE OperatorCount(_, _)
OperatorCount(regex, i) ==
    IF i > Len(regex) THEN 0
    ELSE IF regex[i] = "\\" /\ i < Len(regex) THEN OperatorCount(regex, i + 2)
    ELSE (IF regex[i] \in Operators THEN 1 ELSE 0) + OperatorCount(regex, i + 1)

\* C16: when from_regex returns an automaton, no operator has left the
\* operator stack without being evaluated, and evaluate_operation has been
\* called once for every operator symbol of the regex.
C16_NoOperatorLost ==
    (pc = "compiled" /\ ret.op = "from_regex" /\ ret.err = "") =>
        /\ ret.discarded = 0
        /\ ret.evaluated = OperatorCount(inp.regex, 1)

\* C17: concatenate on the placeholder NFA() gives B (its start, its end, its
\* transitions) and leaves no two objects holding one graph object;
\* concatenate on an initialized A gives start A.start, end B.end and the
\* epsilon transition A.end -> B.start.
C17_ConcatenatePlaceholder ==
    LET f == Obj(ret.slot)
    IN  /\ ret.op = "placeholder" =>
              /\ f.start = ret.arg.start /\ f.end = ret.arg.end
              /\ f.graph.edges = ret.arg.graph.edges
              /\ \A j \in Slots \ {ret.slot} :
                    slots[j].cell # slots[ret.slot].cell
        /\ ret.op = "concatenate" =>
              /\ f.start = ret.pre.start /\ f.end = ret.arg.end
              /\ \E e \in f.graph.edges :
                    e.u = ret.pre.end /\ e.v = ret.arg.start /\ e.w = Epsilon

OnEpsilonCycle(g) ==
    {n \in g.nodes :
        n \in EpsilonReach(g, {e.v : e \in {x \in g.edges :
                                              x.u = n /\ x.w = Epsilon}})}

\* C19: get_epsilon_closures returns, and every nested call it makes has
\* added a state the set did not hold: the calls nest no deeper than the
\* number of states added, hence no deeper than the number of states of the
\* graph, cycles of epsilon transitions included.
C19_ClosureDepthBounded ==
    ret.op = "closure" =>
        /\ ret.depth <= Cardinality(ret.out \ ret.src)
        /\ ret.depth <= Cardinality(Queried.nodes)

C19_Witness ==
    /\ ret.op = "closure"
    /\ ret.depth >= 2
    /\ ret.src \cap OnEpsilonCycle(Queried) # {}
    /\ ret.depth <= Cardinality(ret.out \ ret.src)

====
